---- MODULE Spec2Model ----
(***************************************************************************)
(* Model of setup.py, the setup wizard of the Evident Video Fact Checker:  *)
(* the eight steps run by main() and the hardware-tier resolution of       *)
(* step_models().                                                          *)
(*                                                                         *)
(* Facts of the machine (installed tools, running services, files) are     *)
(* "unknown" until the program first looks at them; the first look fixes   *)
(* the fact to any of its possible values, and from then on it changes     *)
(* only when the program changes it.  This is an arbitrary but fixed       *)
(* environment, also across two runs in a row.                             *)
(*                                                                         *)
(* vram and ram are whole gigabytes: every threshold they are compared to  *)
(* is a whole number, so x >= n is decided by the integer part of x.       *)
(***************************************************************************)
EXTENDS Integers, Sequences, FiniteSets, TLC

\* ------------------------------------------------------------- bounds
MaxVram == 25
MaxRam == 65
MaxRuns == 2

\* ------------------------------------------------- program constants
OLLAMA_POLLS == 12
SEARXNG_POLLS == 18
POLL_INTERVAL == 5

MODEL_TIERS_zero_floor ==
  << [min_vram |-> 24, min_ram |-> 32, label |-> "High-end GPU (24 GB+ VRAM)",
      extract |-> "qwen3:8b", verify |-> "qwen3:30b", write |-> "gemma3:27b"],
     [min_vram |-> 16, min_ram |-> 32, label |-> "Mid-range GPU (16 GB VRAM)",
      extract |-> "qwen3:8b", verify |-> "qwen3:14b", write |-> "gemma3:12b"],
     [min_vram |-> 12, min_ram |-> 32, label |-> "Entry GPU (12 GB VRAM)",
      extract |-> "qwen3:8b", verify |-> "qwen3:8b", write |-> "gemma3:9b"],
     [min_vram |-> 0, min_ram |-> 64, label |-> "High-end CPU (64 GB+ RAM)",
      extract |-> "qwen3:8b", verify |-> "qwen3:14b", write |-> "gemma3:9b"],
     [min_vram |-> 0, min_ram |-> 32, label |-> "Mid-range CPU (32 GB+ RAM)",
      extract |-> "qwen3:8b", verify |-> "qwen3:8b", write |-> "llama3:8b"],
     [min_vram |-> 0, min_ram |-> 0, label |-> "Minimum (16 GB RAM)",
      extract |-> "phi3:mini", verify |-> "phi3:mini", write |-> "phi3:mini"] >>

MODEL_TIERS ==
  << [min_vram |-> 24, min_ram |-> 32, label |-> "High-end GPU (24 GB+ VRAM)",
      extract |-> "qwen3:8b", verify |-> "qwen3:30b", write |-> "gemma3:27b"],
     [min_vram |-> 16, min_ram |-> 32, label |-> "Mid-range GPU (16 GB VRAM)",
      extract |-> "qwen3:8b", verify |-> "qwen3:14b", write |-> "gemma3:12b"],
     [min_vram |-> 12, min_ram |-> 32, label |-> "Entry GPU (12 GB VRAM)",
      extract |-> "qwen3:8b", verify |-> "qwen3:8b", write |-> "gemma3:9b"],
     [min_vram |-> 0, min_ram |-> 64, label |-> "High-end CPU (64 GB+ RAM)",
      extract |-> "qwen3:8b", verify |-> "qwen3:14b", write |-> "gemma3:9b"],
     [min_vram |-> 0, min_ram |-> 32, label |-> "Mid-range CPU (32 GB+ RAM)",
      extract |-> "qwen3:8b", verify |-> "qwen3:8b", write |-> "llama3:8b"],
     [min_vram |-> 0, min_ram |-> 16, label |-> "Minimum (16 GB RAM)",
      extract |-> "phi3:mini", verify |-> "phi3:mini", write |-> "phi3:mini"] >>

RuntimeDirs == {"cache", "runs", "store", "inbox", "logs"}

\* ------------------------------------------------ tier resolution
\* The tier a snapshot gets: a label and the three role models.
TierOf(t) ==
  [label |-> t.label, extract |-> t.extract, verify |-> t.verify, write |-> t.write]

DefaultTier_wrong ==
  [label |-> "Minimum", extract |-> "phi3:mini", verify |-> "phi3:mini",
   write |-> "llama3:8b"]

\* step_models: the values set before the catalog scan, kept when nothing matches.
DefaultTier ==
  [label |-> "Minimum", extract |-> "phi3:mini", verify |-> "phi3:mini",
   write |-> "phi3:mini"]

TierMatches_vram_only(t, vram, ram) == vram >= t.min_vram

TierMatches_reversed(t, vram, ram) == vram >= t.min_vram /\ ram <= t.min_ram

\* step_models: the condition of the scan, "vram >= min_vram and ram >= min_ram".
TierMatches(t, vram, ram) == vram >= t.min_vram /\ ram >= t.min_ram

RECURSIVE ScanTiers(_, _, _)
\* step_models: the for loop over MODEL_TIERS from entry i on, with its break.
ScanTiers(i, vram, ram) ==
  IF i > Len(MODEL_TIERS) THEN DefaultTier
  ELSE IF TierMatches(MODEL_TIERS[i], vram, ram) THEN TierOf(MODEL_TIERS[i])
  ELSE ScanTiers(i + 1, vram, ram)

ResolveTier_skip_first(vram, ram) == ScanTiers(2, vram, ram)

\* step_models: "Find best tier".
ResolveTier(vram, ram) == ScanTiers(1, vram, ram)

\* ------------------------------------------------------------- state
VARIABLES
  env,        \* tools and services of the machine, each "unknown" until probed
  fs,         \* the files and directories the wizard owns
  pulled,     \* the models Ollama lists ({"?"} until listed)
  hw,         \* the hardware snapshot of step 4
  user,       \* the operator's answers to the prompts
  pc,         \* where main() is
  checkOnly,  \* "--check" in sys.argv
  runNo,      \* which run of the wizard this is
  started,    \* the steps started in this run, in order
  res,        \* what each step returned in this run
  exitCode,   \* the process exit code (-1 while running)
  acts,       \* the remediation actions the step that has just returned performed
  svc,        \* the service work of the step that has just returned: probe (the
              \* initial probe), starts (start commands invoked), polls (rounds of
              \* the wait loop), answered (a probe of the wait loop got a response),
              \* notes (the seconds named by the "Waiting..." messages, in order)
  models,     \* the model selection returned by step 5
  tier,       \* the tier label printed by step 5
  fs0,        \* the files as the step that has just returned found them
  sent,       \* the smoke-test requests of this run: "unsent" or what came back
  asked,      \* what the step that has just returned (or main, before step 1) asked
              \* on the terminal
  tvram, tram, tsel, tprev,  \* tier resolution on its own: snapshot, result, previous result
  hin, hout   \* hardware detection on its own: the machine, what step_hardware gave

envVars == <<env, fs, pulled, hw, user>>
runVars == <<pc, checkOnly, runNo, started, res, exitCode, acts, svc, models, tier,
             fs0, sent, asked>>
tierVars == <<tvram, tram, tsel, tprev>>
hwVars == <<hin, hout>>
vars == <<envVars, runVars, tierVars, hwVars>>

NoSvc == [probe |-> "none", starts |-> 0, polls |-> 0, answered |-> FALSE,
          notes |-> << >>]
Steps == 1..8

NoTier == [label |-> "", extract |-> "", verify |-> "", write |-> ""]
NoModels == [extract |-> "-", verify |-> "-", write |-> "-"]
NoSmoke == [generate |-> "unsent", search |-> "unsent", fetch |-> "unsent"]
NoHw == [has_gpu |-> FALSE, gpu_type |-> "unknown", vram |-> 0, ram |-> 0]
NoMachine == [sys |-> "unknown"]
NoDetect == [done |-> FALSE]

\* The machine before the wizard has looked at anything.
EnvInit ==
  /\ env = [py |-> "unknown", pkgs |-> "unknown", req |-> "unknown",
            cli |-> "unknown", ollama |-> "unknown", docker |-> "unknown",
            ffmpeg |-> "unknown", system |-> "unknown", searx |-> "unknown",
            compose |-> "unknown", llm |-> "unknown", search |-> "unknown",
            writable |-> "unknown"]
  /\ fs = [config |-> "unknown", config_models |-> NoModels, dotenv |-> "unknown",
           settings |-> "unknown", limiter |-> "unknown", dirs |-> {"?"}]
  /\ pulled = {"?"}
  /\ hw = NoHw
  /\ user = [continue |-> "unknown", accept |-> "unknown", download |-> "unknown"]

\* main() entered: nothing of this run has happened yet.
RunInit ==
  /\ pc = "start"
  /\ started = << >>
  /\ res = [s \in Steps |-> "none"]
  /\ exitCode = -1
  /\ acts = {}
  /\ svc = NoSvc
  /\ models = NoModels
  /\ tier = ""
  /\ fs0 = fs
  /\ sent = NoSmoke
  /\ asked = {}

\* Hardware detection on its own is not in use.
HwIdle == hin = NoMachine /\ hout = NoDetect

TierIdle == tvram = 0 /\ tram = 0 /\ tsel = NoTier /\ tprev = NoTier

Init ==
  /\ EnvInit
  /\ RunInit
  /\ checkOnly \in BOOLEAN
  /\ runNo = 1
  /\ TierIdle
  /\ HwIdle

\* ------------------------------------------- tier resolution on its own
InitTier ==
  /\ EnvInit
  /\ RunInit
  /\ checkOnly = FALSE
  /\ runNo = 1
  /\ tvram \in 0..MaxVram
  /\ tram \in 0..MaxRam
  /\ tsel = NoTier
  /\ tprev = NoTier
  /\ HwIdle

\* step_models on the snapshot (tvram, tram).
TierResolve ==
  /\ tsel = NoTier
  /\ tsel' = ResolveTier(tvram, tram)
  /\ UNCHANGED <<tvram, tram, tprev, envVars, runVars, hwVars>>

\* step_models again on a snapshot with more vram and the same ram.
TierRaiseVram ==
  /\ tsel # NoTier
  /\ \E v \in (tvram + 1)..MaxVram :
       /\ tvram' = v
       /\ tsel' = ResolveTier(v, tram)
  /\ tprev' = tsel
  /\ UNCHANGED <<tram, envVars, runVars, hwVars>>

\* step_models again on a snapshot with more ram and the same vram.
TierRaiseRam ==
  /\ tsel # NoTier
  /\ \E r \in (tram + 1)..MaxRam :
       /\ tram' = r
       /\ tsel' = ResolveTier(tvram, r)
  /\ tprev' = tsel
  /\ UNCHANGED <<tvram, envVars, runVars, hwVars>>

NextTier == TierResolve \/ TierRaiseVram \/ TierRaiseRam

SpecTier == InitTier /\ [][NextTier]_vars

\* ------------------------------------------------ probes of the machine
\* The values a probe of a fact can return: any of D at the first look, the known
\* value afterwards.
Obs(cur, D) == IF cur = "unknown" THEN D ELSE {cur}

\* http_get on a service endpoint: a service that was started and has not answered
\* yet may answer at any later probe.
ProbeStates(cur) ==
  IF cur = "unknown" THEN {"up", "down"}
  ELSE IF cur = "starting" THEN {"up", "starting"}
  ELSE {cur}

Systems == {"Windows", "Linux", "Darwin", "Other"}

\* The round of its wait loop at which a started service answers: the first, the
\* second, the last, or none within the window.
ReadyAfter(max) == {1, 2, max, max + 1}

\* ---------------------------------------------------------------- main
Halts_same_in_both_modes(step, co) == step \in {1, 2, 3}

Halts_step2_not_fatal(step, co) == step \in {1, 3} \/ (co /\ step \in {6, 7})

\* main: the steps whose failure ends the run with sys.exit(1).
Halts(step, co) == step \in {1, 2, 3} \/ (co /\ step \in {6, 7})

StepPc == [s \in Steps |-> <<"s1", "s2", "s3", "s4", "s5", "s6", "s7", "s8">>[s]]

\* main: what follows a step that returned ok.
MainAfter(step, ok) ==
  IF step = 8
    THEN pc' = "done" /\ exitCode' = (IF ok THEN 0 ELSE 1)
  ELSE IF ~ok /\ Halts(step, checkOnly)
    THEN pc' = "done" /\ exitCode' = 1
  ELSE pc' = StepPc[step + 1] /\ exitCode' = exitCode

\* A step returns to main.
StepReturn(step, ok) ==
  /\ res' = [res EXCEPT ![step] = IF ok THEN "ok" ELSE "fail"]
  /\ MainAfter(step, ok)

\* An exception leaves a step: main does not catch it, the handler around main()
\* prints "Unexpected error" and the traceback and ends the process with
\* sys.exit(1).
StepRaise(step) ==
  /\ res' = [res EXCEPT ![step] = "raise"]
  /\ pc' = "done"
  /\ exitCode' = 1

\* main: the banner and the "Continue?" prompt, which --check skips.
main_start ==
  /\ pc = "start"
  /\ IF checkOnly
       THEN pc' = "s1" /\ UNCHANGED <<user, exitCode>>
       ELSE \E a \in Obs(user.continue, {"yes", "no"}) :
              /\ user' = [user EXCEPT !.continue = a]
              /\ IF a = "yes"
                   THEN pc' = "s1" /\ UNCHANGED exitCode
                   ELSE pc' = "done" /\ exitCode' = 0
  /\ asked' = (IF checkOnly THEN {} ELSE {"Continue?"})
  /\ UNCHANGED <<env, fs, pulled, hw, checkOnly, runNo, started, res, acts, svc, models, tier, fs0, sent, tierVars, hwVars>>

\* ------------------------------------------------------------- step 1
PkgStates == {"all", "core", "none"}

\* pip install can only add packages.
AfterInstall(pk) == IF pk = "none" THEN {"none", "core", "all"} ELSE {"core", "all"}

\* step_python_deps: the import check of the ten key packages.
\* "all": all ten import; "core": the six of the verify list import, one of
\* beautifulsoup4, python-dotenv, jinja2, uvicorn does not; "none": one of the six
\* does not.
NoneMissing(pk) == pk = "all"

\* step_python_deps: the verify after pip install, over six packages.
VerifyPkgs(pk) == pk # "none"

\* step_python_deps: pip install -r Requirements.txt and the verify.
PipInstall(e) ==
  {[env |-> e, ok |-> FALSE, acts |-> {"pip_install"}]}
  \cup {[env |-> [e EXCEPT !.pkgs = pk], ok |-> VerifyPkgs(pk),
         acts |-> {"pip_install"}] : pk \in AfterInstall(e.pkgs)}

\* step_python_deps from the import check on.
PyPkgs(e, co) ==
  IF NoneMissing(e.pkgs) THEN {[env |-> e, ok |-> TRUE, acts |-> {}]}
  ELSE IF co THEN {[env |-> e, ok |-> FALSE, acts |-> {}]}
  ELSE UNION {IF rq = "absent"
                THEN {[env |-> [e EXCEPT !.req = rq], ok |-> FALSE, acts |-> {}]}
                ELSE PipInstall([e EXCEPT !.req = rq])
              : rq \in Obs(e.req, {"present", "absent"})}

\* step_python_deps: every outcome on machine e.
step_python_deps(e, co) ==
  UNION {IF py = "old"
           THEN {[env |-> [e EXCEPT !.py = py], ok |-> FALSE, acts |-> {}]}
           ELSE UNION {PyPkgs([e EXCEPT !.py = py, !.pkgs = pk], co)
                       : pk \in Obs(e.pkgs, PkgStates)}
         : py \in Obs(e.py, {"ok", "old"})}

Step1 ==
  /\ pc = "s1"
  /\ started' = Append(started, 1)
  /\ asked' = {}
  /\ svc' = NoSvc
  /\ fs0' = fs
  /\ \E o \in step_python_deps(env, checkOnly) :
       /\ env' = o.env
       /\ acts' = o.acts
       /\ StepReturn(1, o.ok)
  /\ UNCHANGED <<fs, pulled, hw, user, checkOnly, runNo, models, tier, sent,
                 tierVars, hwVars>>

\* ------------------------------------------------------------- step 2
OllamaFirst_always_start(cli, sv, co) ==
  IF cli # "found" THEN "fail" ELSE IF co THEN "fail" ELSE "start"

\* step_ollama up to the start attempt: the CLI check, the service check and the
\* check_only return.
OllamaFirst(cli, sv, co) ==
  IF cli # "found" THEN "fail"
  ELSE IF sv = "up" THEN "ok"
  ELSE IF co THEN "fail"
  ELSE "start"

PollOutcome_timeout_ok(up, n, max) ==
  IF up THEN "ok" ELSE IF n < max THEN "wait" ELSE "ok"

\* The wait loops of step_ollama and step_searxng: what round n leads to when the
\* probe of that round says up.
PollOutcome(up, n, max) ==
  IF up THEN "ok" ELSE IF n < max THEN "wait" ELSE "fail"

\* A wait loop that prints nothing.
WaitLoop_silent(n, ready, max) ==
  [ok |-> ready <= max, polls |-> IF ready <= max THEN ready ELSE max,
   up |-> ready <= max, notes |-> << >>]

RECURSIVE WaitLoop(_, _, _)
\* The wait loops of step_ollama and step_searxng from round n on, for a service
\* that answers from round ready on: time.sleep(5), probe, return on a response,
\* else info("Waiting... ((i+1)*5 s)") and go on while rounds are left.
WaitLoop(n, ready, max) ==
  LET up == n >= ready
      out == PollOutcome(up, n, max)
      rest == IF out = "wait" THEN WaitLoop(n + 1, ready, max)
              ELSE [ok |-> out = "ok", polls |-> n, up |-> up, notes |-> << >>]
  IN [rest EXCEPT !.notes = (IF up THEN << >> ELSE <<n * POLL_INTERVAL>>) \o @]

\* step_ollama: every outcome on machine e.
step_ollama(e, co) ==
  UNION {IF c # "found"
           THEN {[env |-> [e EXCEPT !.cli = c], ok |-> FALSE, probe |-> "none",
                  starts |-> 0, polls |-> 0, answered |-> FALSE, notes |-> << >>,
                  acts |-> {}]}
           ELSE UNION {
             LET first == OllamaFirst(c, sv, co)
                 e1 == [e EXCEPT !.cli = c, !.ollama = sv]
                 seen == IF sv = "up" THEN "up" ELSE "down"
             IN IF first # "start"
                  THEN {[env |-> e1, ok |-> first = "ok", probe |-> seen,
                         starts |-> 0, polls |-> 0, answered |-> FALSE,
                         notes |-> << >>, acts |-> {}]}
                  ELSE {\* Popen raised: "Could not auto-start Ollama"
                        [env |-> e1, ok |-> FALSE, probe |-> seen, starts |-> 1,
                         polls |-> 0, answered |-> FALSE, notes |-> << >>,
                         acts |-> {"ollama_serve"}]}
                       \cup
                       {\* 'ollama serve' runs in the background: "Wait for it"
                        LET w == WaitLoop(1, r, OLLAMA_POLLS)
                        IN [env |-> [e1 EXCEPT !.ollama = IF w.up THEN "up"
                                                           ELSE "starting"],
                            ok |-> w.ok, probe |-> seen, starts |-> 1,
                            polls |-> w.polls, answered |-> w.up,
                            notes |-> w.notes, acts |-> {"ollama_serve"}]
                        : r \in ReadyAfter(OLLAMA_POLLS)}
             : sv \in ProbeStates(e.ollama)}
         : c \in Obs(e.cli, {"found", "missing"})}

Step2 ==
  /\ pc = "s2"
  /\ started' = Append(started, 2)
  /\ asked' = {}
  /\ fs0' = fs
  /\ \E o \in step_ollama(env, checkOnly) :
       /\ env' = o.env
       /\ acts' = o.acts
       /\ svc' = [probe |-> o.probe, starts |-> o.starts, polls |-> o.polls,
                  answered |-> o.answered, notes |-> o.notes]
       /\ StepReturn(2, o.ok)
  /\ UNCHANGED <<fs, pulled, hw, user, checkOnly, runNo, models, tier, sent,
                 tierVars, hwVars>>

\* ------------------------------------------------------------- step 3
\* _check_ffmpeg: what the installer it launches asks on the terminal. On Linux the
\* command is "sudo apt-get install -y ffmpeg": sudo asks for the password unless
\* the credentials are cached or the account needs none. winget runs with both
\* --accept flags and brew asks nothing.
InstallerAsks(sy) == IF sy = "Linux" THEN {{}, {"sudo password"}} ELSE {{}}

\* _check_ffmpeg: every outcome. It takes no check_only argument.
check_ffmpeg(e) ==
  UNION {IF ff = "present"
           THEN {[env |-> [e EXCEPT !.ffmpeg = ff], ret |-> TRUE, acts |-> {},
                  asks |-> {}]}
           ELSE UNION {
             LET e1 == [e EXCEPT !.ffmpeg = ff, !.system = sy]
             IN IF sy = "Other"
                  THEN {[env |-> e1, ret |-> FALSE, acts |-> {}, asks |-> {}]}
                  ELSE UNION {
                    {\* the installer failed, timed out or is not there
                     [env |-> e1, ret |-> FALSE, acts |-> {"ffmpeg_install"},
                      asks |-> q],
                     \* the installer succeeded
                     [env |-> [e1 EXCEPT !.ffmpeg = "present"], ret |-> TRUE,
                      acts |-> {"ffmpeg_install"}, asks |-> q]}
                    \cup (IF sy = "Windows"
                            \* winget succeeded, PATH not yet updated
                            THEN {[env |-> e1, ret |-> TRUE,
                                   acts |-> {"ffmpeg_install"}, asks |-> q]}
                            ELSE {})
                    : q \in InstallerAsks(sy)}
             : sy \in Obs(e.system, Systems)}
         : ff \in Obs(e.ffmpeg, {"present", "absent"})}

\* step_docker_and_ffmpeg: docker, docker compose, docker info, then _check_ffmpeg
\* whose result is dropped.
step_docker_and_ffmpeg(e, co) ==
  UNION {IF dk # "ok"
           THEN {[env |-> [e EXCEPT !.docker = dk], ok |-> FALSE, acts |-> {},
                  asks |-> {}]}
           ELSE {[env |-> f.env, ok |-> TRUE, acts |-> f.acts, asks |-> f.asks]
                 : f \in check_ffmpeg([e EXCEPT !.docker = dk])}
         : dk \in Obs(e.docker, {"none", "nocompose", "nodaemon", "ok"})}

Step3 ==
  /\ pc = "s3"
  /\ started' = Append(started, 3)
  /\ svc' = NoSvc
  /\ fs0' = fs
  /\ \E o \in step_docker_and_ffmpeg(env, checkOnly) :
       /\ env' = o.env
       /\ acts' = o.acts
       /\ asked' = o.asks
       /\ StepReturn(3, o.ok)
  /\ UNCHANGED <<fs, pulled, hw, user, checkOnly, runNo, models, tier, sent,
                 tierVars, hwVars>>

\* ------------------------------------------------------------- step 4
\* Text is a sequence of one-character strings, so that Python's "x in s" is a
\* search for a contiguous run of characters.
Contains(pat, str) ==
  \E i \in 1..(Len(str) - Len(pat) + 1) : SubSeq(str, i, i + Len(pat) - 1) = pat

\* AMD_VRAM_TABLE, in the order the dict literal lists its keys.
AMD_VRAM_TABLE ==
  <<[pattern |-> <<"7", "9", "0", "0", " ", "X", "T", "X">>, vram |-> 24],
     [pattern |-> <<"7", "9", "0", "0", " ", "X", "T">>, vram |-> 20],
     [pattern |-> <<"7", "8", "0", "0", " ", "X", "T">>, vram |-> 16],
     [pattern |-> <<"7", "7", "0", "0", " ", "X", "T">>, vram |-> 12],
     [pattern |-> <<"7", "6", "0", "0">>, vram |-> 8],
     [pattern |-> <<"6", "9", "5", "0", " ", "X", "T">>, vram |-> 16],
     [pattern |-> <<"6", "9", "0", "0", " ", "X", "T">>, vram |-> 16],
     [pattern |-> <<"6", "8", "0", "0", " ", "X", "T">>, vram |-> 16],
     [pattern |-> <<"6", "8", "0", "0">>, vram |-> 16],
     [pattern |-> <<"6", "7", "5", "0", " ", "X", "T">>, vram |-> 12],
     [pattern |-> <<"6", "7", "0", "0", " ", "X", "T">>, vram |-> 12]>>

RECURSIVE LookupVram(_, _)
\* _detect_amd_windows / _detect_amd_rocm: "for pattern, known_vram in
\* AMD_VRAM_TABLE.items(): if pattern in gpu_name: ... break", from entry i on;
\* 0 when no key occurs in the name.
LookupVram(i, name) ==
  IF i > Len(AMD_VRAM_TABLE) THEN 0
  ELSE IF Contains(AMD_VRAM_TABLE[i].pattern, name) THEN AMD_VRAM_TABLE[i].vram
  ELSE LookupVram(i + 1, name)

\* What starting an external command can give: the command is not installed, it
\* runs into the timeout, the file may not be executed, or it prints "out".
CmdKinds == {"absent", "timeout", "denied", "out"}

\* run(cmd, capture=True, check=False): None for a missing command and for a
\* timeout, the captured text otherwise; any other error is raised to the caller.
run_nocheck(c) ==
  IF c.kind \in {"absent", "timeout"} THEN [raised |-> FALSE, none |-> TRUE, out |-> << >>]
  ELSE IF c.kind = "denied" THEN [raised |-> TRUE, none |-> TRUE, out |-> << >>]
  ELSE [raised |-> FALSE, none |-> FALSE, out |-> c.out]

NotFound == [found |-> FALSE, name |-> << >>, vram |-> 0, raised |-> FALSE]
Raised == [found |-> FALSE, name |-> << >>, vram |-> 0, raised |-> TRUE]
Found(name, vram) == [found |-> TRUE, name |-> name, vram |-> vram, raised |-> FALSE]

Caught_nothing(r) == r

\* "try: ... except Exception: pass" followed by "return False, None, 0.0".
Caught(r) == IF r.raised THEN NotFound ELSE r

\* float(x) and int(x) of the texts used here; -1 stands for ValueError.
NumberOf(x) ==
  CASE x = "24576" -> 24576
    [] x = "8192" -> 8192
    [] x = "1073741824" -> 1073741824
    [] x = "0" -> 0
    [] OTHER -> -1

\* _detect_nvidia. The output is given as out.split(",") returns it: the name,
\* then the memory in MiB.
detect_nvidia(c) ==
  LET r == run_nocheck(c)
      body == IF r.raised THEN Raised
              ELSE IF r.none \/ r.out = << >> THEN NotFound
              ELSE IF Len(r.out) < 2 THEN Raised              \* IndexError
              ELSE IF NumberOf(r.out[2]) < 0 THEN Raised      \* ValueError
              ELSE Found(r.out[1], NumberOf(r.out[2]) \div 1024)
  IN Caught(body)

\* The two words _detect_amd_windows and _detect_amd_rocm look for.
Radeon == <<"R", "a", "d", "e", "o", "n">>
AMD == <<"A", "M", "D">>
IsAmdText(t) == Contains(Radeon, t) \/ Contains(AMD, t)

\* _detect_amd_windows: "Try parsing reported value" of an AdapterRAM line, bytes
\* to GB; IndexError and ValueError are caught there and leave 0.
RawVram(l) ==
  IF ~l.colon THEN 0
  ELSE IF l.raw = "" THEN 0
  ELSE IF NumberOf(l.raw) < 0 THEN 0
  ELSE NumberOf(l.raw) \div (1024 * 1024 * 1024)

VramOf_raw_first(name, l) ==
  IF RawVram(l) # 0 THEN RawVram(l) ELSE LookupVram(1, name)

\* _detect_amd_windows: the vram of the adapter "name" whose AdapterRAM line is l:
\* the table first, the reported value only when the table gave 0.
VramOf(name, l) ==
  IF LookupVram(1, name) # 0 THEN LookupVram(1, name) ELSE RawVram(l)

RECURSIVE WmiScan(_, _, _)
\* _detect_amd_windows: the loop over the lines of the Format-List output, from
\* line i on, gpu_name being the last AMD name seen (<< >> for None).
WmiScan(lines, i, gpu_name) ==
  IF i > Len(lines) THEN NotFound
  ELSE LET l == lines[i]
       IN IF l.key = "Name" /\ IsAmdText(l.val)
            THEN WmiScan(lines, i + 1, IF l.colon THEN l.val ELSE << >>)
          ELSE IF l.key = "AdapterRAM" /\ gpu_name # << >>
            THEN Found(gpu_name, VramOf(gpu_name, l))
          ELSE WmiScan(lines, i + 1, gpu_name)

\* _detect_amd_windows on the system sy.
detect_amd_windows(sy, c) ==
  IF sy # "Windows" THEN NotFound
  ELSE LET r == run_nocheck(c)
           body == IF r.raised THEN Raised
                   ELSE IF r.none \/ r.out = << >> THEN NotFound
                   ELSE WmiScan(r.out, 1, << >>)
       IN Caught(body)

RECURSIVE RocmName(_, _)
\* _detect_amd_rocm: the loop that takes the name from the first "Card series:" or
\* "Card model:" line, or from the first line with "Radeon" or "AMD" in it.
RocmName(lines, i) ==
  IF i > Len(lines) THEN << >>
  ELSE IF lines[i].tag \in {"Card series", "Card model"} THEN lines[i].val
  ELSE IF IsAmdText(lines[i].val) THEN lines[i].val
  ELSE RocmName(lines, i + 1)

\* _detect_amd_rocm. The output is given as its lines and whether "GPU" occurs.
detect_amd_rocm(c) ==
  LET r == run_nocheck(c)
      body == IF r.raised THEN Raised
              ELSE IF r.none THEN NotFound
              ELSE IF r.out.lines = << >> \/ ~r.out.gpu THEN NotFound
              ELSE IF RocmName(r.out.lines, 1) = << >> THEN NotFound
              ELSE LET name == RocmName(r.out.lines, 1)
                   IN Found(name, LookupVram(1, name))
  IN Caught(body)

\* _check_ollama_gpu: found stands for "GPU" in out.upper().
check_ollama_gpu(c) ==
  LET r == run_nocheck(c)
      body == IF r.raised THEN Raised
              ELSE IF r.none THEN NotFound
              ELSE IF r.out.gpu THEN Found(<< >>, 0) ELSE NotFound
  IN Caught(body)

\* A step_hardware that runs all three detectors and lets the last one that found
\* a GPU win.
DetectHardware_no_short_circuit(m) ==
  LET nv == detect_nvidia(m.nv)
      wmi == detect_amd_windows(m.sys, m.wmi)
      rocm == detect_amd_rocm(m.rocm)
      amd == IF rocm.found THEN rocm ELSE wmi
      ps == IF amd.found THEN check_ollama_gpu(m.ps) ELSE NotFound
      gpu == IF amd.found THEN amd ELSE nv
  IN [has_gpu |-> gpu.found,
      gpu_type |-> IF amd.found THEN "amd" ELSE IF nv.found THEN "nvidia" ELSE "none",
      gpu_name |-> gpu.name,
      vram |-> gpu.vram,
      ram |-> m.ram,
      calls |-> <<"nvidia-smi", "wmi", "rocm-smi">>
                \o (IF amd.found THEN <<"ollama ps">> ELSE << >>),
      warned |-> amd.found /\ ~ps.found,
      raised |-> FALSE]

\* step_hardware on the machine m: the detectors it invokes, in order (calls), the
\* hw dict, whether the "Ollama may not be using GPU" warning was printed, and
\* whether an exception left the function (raised) instead of a dict.
DetectHardware(m) ==
  LET nv == detect_nvidia(m.nv)
      wmi == IF nv.found \/ m.sys # "Windows" THEN NotFound
             ELSE detect_amd_windows(m.sys, m.wmi)
      rocm == IF nv.found \/ wmi.found THEN NotFound ELSE detect_amd_rocm(m.rocm)
      amd == IF wmi.found THEN wmi ELSE rocm
      ps == IF amd.found THEN check_ollama_gpu(m.ps) ELSE NotFound
      gpu == IF nv.found THEN nv ELSE amd
  IN [has_gpu |-> gpu.found,
      gpu_type |-> IF nv.found THEN "nvidia" ELSE IF amd.found THEN "amd" ELSE "none",
      gpu_name |-> gpu.name,
      vram |-> gpu.vram,
      ram |-> m.ram,
      calls |-> <<"nvidia-smi">>
                \o (IF ~nv.found /\ m.sys = "Windows" THEN <<"wmi">> ELSE << >>)
                \o (IF ~nv.found /\ ~wmi.found THEN <<"rocm-smi">> ELSE << >>)
                \o (IF amd.found THEN <<"ollama ps">> ELSE << >>),
      warned |-> amd.found /\ ~ps.found,
      raised |-> nv.raised \/ wmi.raised \/ rocm.raised \/ ps.raised]

\* Adapter names: two cards whose names contain table keys (the first contains
\* two of them), one with a key and no "AMD", an AMD integrated GPU that is not in
\* the table, an Intel GPU, an NVIDIA card.
N7900XTX == <<"A", "M", "D", " ", "R", "a", "d", "e", "o", "n", " ", "R", "X", " ", "7", "9", "0", "0", " ", "X", "T", "X">>
N7900XT == <<"A", "M", "D", " ", "R", "a", "d", "e", "o", "n", " ", "R", "X", " ", "7", "9", "0", "0", " ", "X", "T">>
N6800XT == <<"R", "a", "d", "e", "o", "n", " ", "R", "X", " ", "6", "8", "0", "0", " ", "X", "T">>
NIntegrated == <<"A", "M", "D", " ", "R", "a", "d", "e", "o", "n", "(", "T", "M", ")", " ", "G", "r", "a", "p", "h", "i", "c", "s">>
NIntel == <<"I", "n", "t", "e", "l", "(", "R", ")", " ", "U", "H", "D", " ", "G", "r", "a", "p", "h", "i", "c", "s">>
NRtx == <<"R", "T", "X", " ", "4", "0", "9", "0">>

AmdNames == {N7900XTX, N7900XT, N6800XT, NIntegrated}

Failed(kind) == [kind |-> kind, out |-> << >>]
Printed(out) == [kind |-> "out", out |-> out]
Failures == {Failed(k) : k \in CmdKinds \ {"out"}}

\* What nvidia-smi can do: fail, print nothing, print an error text, print a card
\* whose memory is "[N/A]", print one card, print two cards (two lines).
NvResults ==
  Failures \cup
  {Printed(<< >>),
   Printed(<<"NVIDIA-SMI has failed">>),
   Printed(<<NRtx, "[N/A]">>),
   Printed(<<NRtx, "24576">>),
   Printed(<<NRtx, "8192">>),
   Printed(<<NRtx, "24576 + second line", "24576">>)}

NameLine(n) == [key |-> "Name", colon |-> TRUE, val |-> n]
RamLine(raw) == [key |-> "AdapterRAM", colon |-> TRUE, raw |-> raw]

\* What an AdapterRAM line can carry: nothing, text, 1 GB in bytes.
RawValues == {"", "N/A", "1073741824"}

\* What the WMI query can do: fail, print nothing, print text without the two
\* fields, print a name without AdapterRAM, print one AMD adapter, print an AMD
\* adapter whose AdapterRAM line has no colon, print an Intel adapter, print an
\* Intel adapter and then an AMD one.
WmiResults ==
  Failures \cup
  {Printed(<< >>),
   Printed(<<[key |-> "other", colon |-> FALSE, val |-> << >>]>>),
   Printed(<<NameLine(N7900XTX)>>),
   Printed(<<NameLine(NIntegrated),
             [key |-> "AdapterRAM", colon |-> FALSE, raw |-> ""]>>),
   Printed(<<NameLine(NIntel), RamLine("1073741824")>>),
   Printed(<<NameLine(NIntel), RamLine("1073741824"),
             NameLine(N7900XT), RamLine("1073741824")>>)}
  \cup {Printed(<<NameLine(n), RamLine(raw)>>) : n \in AmdNames, raw \in RawValues}

\* What rocm-smi can do: fail, print nothing, print text without "GPU", print
\* "GPU" lines without a name, print a card series, print an empty card series.
RocmResults ==
  Failures \cup
  {Printed([gpu |-> FALSE, lines |-> << >>]),
   Printed([gpu |-> FALSE, lines |-> <<[tag |-> "text", val |-> NIntel]>>]),
   Printed([gpu |-> TRUE, lines |-> <<[tag |-> "text", val |-> NIntel]>>]),
   Printed([gpu |-> TRUE, lines |-> <<[tag |-> "Card series", val |-> N6800XT]>>]),
   Printed([gpu |-> TRUE, lines |-> <<[tag |-> "text", val |-> NIntegrated]>>]),
   Printed([gpu |-> TRUE, lines |-> <<[tag |-> "Card series", val |-> << >>]>>])}

\* What "ollama ps" can do: fail, or print a table with or without "GPU" in it.
PsResults == Failures \cup {Printed([gpu |-> g]) : g \in BOOLEAN}

RamChoices == {8, 32}

\* Every machine step_hardware is run on.
HwInputs ==
  [sys : Systems, nv : NvResults, wmi : WmiResults, rocm : RocmResults,
   ps : PsResults, ram : RamChoices]

\* The three machines of the wizard runs: no GPU tool at all and 8 GB of RAM; an
\* NVIDIA card with 24 GB and 32 GB of RAM; an AMD card under ROCm and 64 GB of RAM.
HwMachines ==
  {[sys |-> "Linux", nv |-> Failed("absent"), wmi |-> Failed("absent"),
    rocm |-> Failed("absent"), ps |-> Failed("absent"), ram |-> 8],
   [sys |-> "Linux", nv |-> Printed(<<NRtx, "24576">>), wmi |-> Failed("absent"),
    rocm |-> Failed("absent"), ps |-> Failed("absent"), ram |-> 32],
   [sys |-> "Linux", nv |-> Failed("absent"), wmi |-> Failed("absent"),
    rocm |-> Printed([gpu |-> TRUE,
                      lines |-> <<[tag |-> "Card series", val |-> N6800XT]>>]),
    ps |-> Printed([gpu |-> TRUE]), ram |-> 64]}

\* The part of the hw dict that the later steps read.
Snapshot(d) ==
  [has_gpu |-> d.has_gpu, gpu_type |-> d.gpu_type, vram |-> d.vram, ram |-> d.ram]

\* The snapshots step_hardware returns on those machines.
HwSnapshots == {Snapshot(DetectHardware(m)) : m \in HwMachines}

\* step_hardware: the snapshot of this machine, the same at every run.
step_hardware(h) == IF h = NoHw THEN HwSnapshots ELSE {h}

\* ------------------------------------- hardware detection on its own
InitHw ==
  /\ EnvInit
  /\ RunInit
  /\ checkOnly = FALSE
  /\ runNo = 1
  /\ TierIdle
  /\ hin \in HwInputs
  /\ hout = NoDetect

\* step_hardware on the machine hin.
HwDetect ==
  /\ ~hout.done
  /\ hout' = [done |-> TRUE, r |-> DetectHardware(hin)]
  /\ UNCHANGED <<hin, envVars, runVars, tierVars>>

NextHw == HwDetect

SpecHw == InitHw /\ [][NextHw]_vars

Step4 ==
  /\ pc = "s4"
  /\ started' = Append(started, 4)
  /\ asked' = {}
  /\ svc' = NoSvc
  /\ fs0' = fs
  /\ acts' = {}
  /\ hw' \in step_hardware(hw)
  /\ StepReturn(4, TRUE)
  /\ UNCHANGED <<env, fs, pulled, user, checkOnly, runNo, models, tier, sent, tierVars, hwVars>>

\* ------------------------------------------------------------- step 5
\* What the operator types at the three model prompts after declining the
\* recommendation: a model for extract, Enter for verify and write.
UserTyped == [extract |-> "mistral:7b", verify |-> "", write |-> ""]

OrDefault_recommended(typed, dflt) == dflt

\* step_models: input(...).strip() or <recommended>.
OrDefault(typed, dflt) == IF typed = "" THEN dflt ELSE typed

ModelSet(m) == {m.extract, m.verify, m.write}

CatalogModels == UNION {ModelSet(MODEL_TIERS[i]) : i \in 1..Len(MODEL_TIERS)}

\* What 'GET /api/tags' can list on a machine: nothing, one small model, or every
\* model this wizard can ask for.
PulledChoices == {{}, {"qwen3:8b"}, CatalogModels \cup {"mistral:7b"}}

\* step_models: what the 'ollama pull' loop can leave pulled: nothing, every needed
\* model, or every needed model but the write model.
PullResults(m, needed) == {{}, needed, needed \ {m.write}}

\* step_models from "Check what's already pulled" on, for the selection m; q is
\* what the step has asked so far. 'ollama pull' is run without a timeout: when it
\* never exits the step never returns (hung).
ModelsPull(m, u, p, co, q) ==
  UNION {
    LET needed == ModelSet(m) \ av
        base == [models |-> m, user |-> u, pulled |-> av, acts |-> {}, asks |-> q,
                 hung |-> FALSE]
    IN IF needed = {} \/ co THEN {base}
       ELSE UNION {
              LET b1 == [base EXCEPT !.user = [u EXCEPT !.download = dl],
                                     !.asks = q \cup {"Download now?"}]
              IN IF dl = "no" THEN {b1}
                 ELSE {[b1 EXCEPT !.pulled = av \cup got, !.acts = {"model_pull"}]
                       : got \in PullResults(m, needed)}
                      \cup {[b1 EXCEPT !.acts = {"model_pull"}, !.hung = TRUE]}
              : dl \in Obs(u.download, {"yes", "no"})}
    : av \in (IF p = {"?"} THEN PulledChoices ELSE {p})}

\* step_models: every outcome for the snapshot h.
step_models(h, u, p, co) ==
  LET t == ResolveTier(h.vram, h.ram)
      rec == [extract |-> t.extract, verify |-> t.verify, write |-> t.write]
      typed == [extract |-> OrDefault(UserTyped.extract, t.extract),
                verify |-> OrDefault(UserTyped.verify, t.verify),
                write |-> OrDefault(UserTyped.write, t.write)]
  IN IF co THEN ModelsPull(rec, u, p, co, {})
     ELSE UNION {IF a = "yes"
                   THEN ModelsPull(rec, [u EXCEPT !.accept = a], p, co,
                                   {"Use these models?"})
                   ELSE ModelsPull(typed, [u EXCEPT !.accept = a], p, co,
                                   {"Use these models?", "model names"})
                 : a \in Obs(u.accept, {"yes", "no"})}

Step5 ==
  /\ pc = "s5"
  /\ started' = Append(started, 5)
  /\ svc' = NoSvc
  /\ fs0' = fs
  /\ tier' = ResolveTier(hw.vram, hw.ram).label
  /\ \E o \in step_models(hw, user, pulled, checkOnly) :
       /\ models' = (IF o.hung THEN models ELSE o.models)
       /\ user' = o.user
       /\ pulled' = o.pulled
       /\ acts' = o.acts
       /\ asked' = o.asks
       /\ IF o.hung
            THEN pc' = "hung" /\ UNCHANGED <<res, exitCode>>
            ELSE /\ res' = [res EXCEPT ![5] = IF ModelSet(o.models) \subseteq o.pulled
                                                THEN "ok" ELSE "warn"]
                 /\ MainAfter(5, TRUE)
  /\ UNCHANGED <<env, fs, hw, checkOnly, runNo, sent,
                 tierVars, hwVars>>

\* ------------------------------------------------------------- step 6
\* Whether write_text and mkdir succeed in the project directory: a fact of the
\* machine (read-only directory, missing permission), looked at when the wizard
\* first writes.
Writable == {"yes", "no"}

\* _create_searxng_config: settings.yml and limiter.toml, each written only when
\* it does not exist; wr says whether the project directory can be written. The
\* function has no try: a write that fails raises OSError out of it. (mkdir of
\* searxng/ with exist_ok acts only when the directory, and so settings.yml, is
\* missing, and then fails or succeeds as the write of settings.yml does.)
create_searxng_config(f, wr) ==
  UNION {
    IF st = "absent" /\ wr = "no"
      THEN {[seen |-> [f EXCEPT !.settings = st], fs |-> [f EXCEPT !.settings = st],
             acts |-> {}, wrote |-> TRUE, raised |-> TRUE]}
      ELSE {IF lm = "absent" /\ wr = "no"
              THEN [seen |-> [f EXCEPT !.settings = st, !.limiter = lm],
                    fs |-> [f EXCEPT !.settings = st, !.limiter = lm],
                    acts |-> {}, wrote |-> TRUE, raised |-> TRUE]
              ELSE [seen |-> [f EXCEPT !.settings = st, !.limiter = lm],
                    fs |-> [f EXCEPT !.settings = "present", !.limiter = "present"],
                    acts |-> (IF st = "absent" THEN {"write_searx_settings"} ELSE {})
                             \cup (IF lm = "absent" THEN {"write_searx_limiter"}
                                   ELSE {}),
                    wrote |-> st = "absent" \/ lm = "absent", raised |-> FALSE]
            : lm \in Obs(f.limiter, {"present", "absent"})}
    : st \in Obs(f.settings, {"present", "absent"})}

SearxFirst_always_start(sx, co) == IF co THEN "fail" ELSE "start"

\* step_searxng up to the compose-file check: "Already running?" and the
\* check_only return.
SearxFirst(sx, co) ==
  IF sx = "up" THEN "ok" ELSE IF co THEN "fail" ELSE "start"

\* step_searxng: every outcome on machine e with files f.
step_searxng(e, f, co) ==
  UNION {
    LET first == SearxFirst(sx, co)
        e1 == [e EXCEPT !.searx = sx]
        back == [env |-> e1, seen |-> f, fs |-> f, ok |-> first = "ok",
                 probe |-> IF sx = "up" THEN "up" ELSE "down",
                 starts |-> 0, polls |-> 0, answered |-> FALSE, notes |-> << >>,
                 acts |-> {}, raised |-> FALSE]
    IN IF first # "start" THEN {back}
       ELSE UNION {
              IF cf = "absent"
                THEN {[back EXCEPT !.env = [e1 EXCEPT !.compose = cf]]}
                ELSE UNION { UNION {
                  LET e2 == [e1 EXCEPT !.compose = cf,
                                       !.writable = IF c.wrote THEN wr ELSE @]
                      up == [back EXCEPT !.seen = c.seen, !.fs = c.fs, !.starts = 1,
                                         !.acts = c.acts \cup {"compose_up"}]
                  IN IF c.raised
                       THEN {\* _create_searxng_config raised: nothing is started
                             [back EXCEPT !.env = e2, !.seen = c.seen, !.fs = c.fs,
                                          !.acts = c.acts, !.raised = TRUE]}
                       ELSE {\* docker compose up -d failed or timed out
                             [up EXCEPT !.env = e2]}
                            \cup
                            {\* the containers were started: "Wait for health"
                             LET w == WaitLoop(1, r, SEARXNG_POLLS)
                             IN [up EXCEPT !.env = [e2 EXCEPT !.searx =
                                                      IF w.up THEN "up" ELSE "starting"],
                                           !.ok = w.ok, !.polls = w.polls,
                                           !.answered = w.up, !.notes = w.notes]
                             : r \in ReadyAfter(SEARXNG_POLLS)}
                  : c \in create_searxng_config(f, wr)}
                  : wr \in Obs(e.writable, Writable)}
              : cf \in Obs(e.compose, {"present", "absent"})}
    : sx \in ProbeStates(e.searx)}

Step6 ==
  /\ pc = "s6"
  /\ started' = Append(started, 6)
  /\ asked' = {}
  /\ \E o \in step_searxng(env, fs, checkOnly) :
       /\ env' = o.env
       /\ fs' = o.fs
       /\ fs0' = o.seen
       /\ acts' = o.acts
       /\ svc' = [probe |-> o.probe, starts |-> o.starts, polls |-> o.polls,
                  answered |-> o.answered, notes |-> o.notes]
       /\ IF o.raised THEN StepRaise(6) ELSE StepReturn(6, o.ok)
  /\ UNCHANGED <<pulled, hw, user, checkOnly, runNo, models, tier, sent, tierVars, hwVars>>

\* ------------------------------------------------------------- step 7
\* What the wizard can find where its runtime directories go.
DirChoices == {{}, RuntimeDirs \ {"logs"}, RuntimeDirs}

Exists_valid_only(c) == c = "valid"

Exists(c) == c \in {"valid", "invalid", "present"}

\* What a config.yaml that was there before the wizard can name as its three
\* models: phi3:mini throughout, or the models of the first catalog entry.
ConfigContents ==
  {[extract |-> "phi3:mini", verify |-> "phi3:mini", write |-> "phi3:mini"],
   [extract |-> MODEL_TIERS[1].extract, verify |-> MODEL_TIERS[1].verify,
    write |-> MODEL_TIERS[1].write]}

\* The model entries of config.yaml as step_config finds the file: those of a
\* valid file are looked at here for the first time; a file that is missing or
\* does not parse names none.
FoundContents(f, cf) ==
  IF f.config = "unknown" /\ cf = "valid" THEN ConfigContents ELSE {f.config_models}

\* step_config: what the step has come to when a write_text or mkdir raises.
WriteRaised(o) == [o EXCEPT !.ok = FALSE, !.wrote = TRUE, !.raised = TRUE]

\* step_config: the "Directories" block, reached in both modes. mkdir with
\* exist_ok acts only on a directory that is missing.
MakeDirs(o, wr) ==
  {LET o1 == [o EXCEPT !.seen = [o.seen EXCEPT !.dirs = d],
                       !.fs = [o.fs EXCEPT !.dirs = d]]
   IN IF d = RuntimeDirs THEN o1
      ELSE IF wr = "no" THEN WriteRaised(o1)
      ELSE [o1 EXCEPT !.fs = [o1.fs EXCEPT !.dirs = RuntimeDirs],
                      !.acts = o.acts \cup {"mkdir"}, !.wrote = TRUE]
   : d \in (IF o.fs.dirs = {"?"} THEN DirChoices ELSE {o.fs.dirs})}

\* step_config: the ".env file" block and what follows it.
DotEnv(o, co, wr) ==
  UNION {
    LET o1 == [o EXCEPT !.seen = [o.seen EXCEPT !.dotenv = de],
                        !.fs = [o.fs EXCEPT !.dotenv = de]]
    IN IF Exists(de) \/ co THEN MakeDirs(o1, wr)
       ELSE IF wr = "no" THEN {WriteRaised(o1)}
       ELSE MakeDirs([o1 EXCEPT !.fs = [o1.fs EXCEPT !.dotenv = "present"],
                                !.acts = o1.acts \cup {"write_env"},
                                !.wrote = TRUE], wr)
    : de \in Obs(o.fs.dotenv, {"present", "absent"})}

\* step_config: every outcome for the files f and the selection m; wr says
\* whether the project directory can be written. None of the writes is inside a
\* try.
step_config(m, f, co, wr) ==
  UNION { UNION {
    LET f1 == [f EXCEPT !.config = cf, !.config_models = cm]
        o == [seen |-> f1, fs |-> f1, ok |-> TRUE, acts |-> {}, wrote |-> FALSE,
              raised |-> FALSE]
    IN IF Exists(cf) THEN DotEnv(o, co, wr)
       ELSE IF co THEN {[o EXCEPT !.ok = FALSE]}
       ELSE IF wr = "no" THEN {WriteRaised(o)}
       ELSE DotEnv([o EXCEPT !.fs = [f1 EXCEPT !.config = "valid",
                                                !.config_models = m],
                             !.acts = {"write_config"}, !.wrote = TRUE], co, wr)
    : cm \in FoundContents(f, cf)}
    : cf \in Obs(f.config, {"absent", "valid", "invalid"})}

Step7 ==
  /\ pc = "s7"
  /\ started' = Append(started, 7)
  /\ asked' = {}
  /\ svc' = NoSvc
  /\ \E wr \in Obs(env.writable, Writable) :
       \E o \in step_config(models, fs, checkOnly, wr) :
         /\ env' = [env EXCEPT !.writable = IF o.wrote THEN wr ELSE @]
         /\ fs' = o.fs
         /\ fs0' = o.seen
         /\ acts' = o.acts
         /\ IF o.raised THEN StepRaise(7) ELSE StepReturn(7, o.ok)
  /\ UNCHANGED <<pulled, hw, user, checkOnly, runNo, models, tier, sent, tierVars, hwVars>>

\* ------------------------------------------------------------- step 8
AllOk_ignores_models(m, sv, sx, f, p) ==
  /\ sv = "up" /\ sx = "up" /\ Exists(f.config) /\ f.dirs = RuntimeDirs

\* step_validate_and_test: all_ok after the service checks.
AllOk(m, sv, sx, f, p) ==
  /\ sv = "up"
  /\ ModelSet(m) \subseteq p
  /\ sx = "up"
  /\ Exists(f.config)
  /\ f.dirs = RuntimeDirs

SmokeOk_llm_only(llm, search, net) == llm = "ok"

SmokeOk_needs_fetch(llm, search, net) ==
  llm = "ok" /\ search = "ok" /\ net # "down"

\* step_validate_and_test: smoke_ok after the three requests.
SmokeOk(llm, search, net) == llm = "ok" /\ search = "ok"

\* step_validate_and_test: every outcome.
step_validate_and_test(m, e, f, p) ==
  UNION {
    LET e1 == [e EXCEPT !.ollama = sv, !.searx = sx]
    IN IF ~AllOk(m, sv, sx, f, p)
         THEN {[env |-> e1, ok |-> FALSE, sent |-> NoSmoke]}
         ELSE {[env |-> [e1 EXCEPT !.llm = llm, !.search = sr],
                ok |-> SmokeOk(llm, sr, nt),
                sent |-> [generate |-> llm, search |-> sr, fetch |-> nt]]
               : llm \in Obs(e.llm, {"ok", "none"}),
                 sr \in Obs(e.search, {"ok", "none"}),
                 nt \in {"httpbin", "example", "down"}}
    : sv \in ProbeStates(e.ollama), sx \in ProbeStates(e.searx)}

Step8 ==
  /\ pc = "s8"
  /\ started' = Append(started, 8)
  /\ asked' = {}
  /\ svc' = NoSvc
  /\ fs0' = fs
  /\ acts' = {}
  /\ \E o \in step_validate_and_test(models, env, fs, pulled) :
       /\ env' = o.env
       /\ sent' = o.sent
       /\ StepReturn(8, o.ok)
  /\ UNCHANGED <<fs, pulled, hw, user, checkOnly, runNo, models, tier, tierVars, hwVars>>

\* --------------------------------------------------------- a second run
\* The operator runs the same command again right after a run that ended with
\* SETUP COMPLETE; the machine is as that run left it.
Rerun ==
  /\ pc = "done"
  /\ res[8] = "ok"
  /\ runNo < MaxRuns
  /\ runNo' = runNo + 1
  /\ pc' = "start"
  /\ started' = << >>
  /\ res' = [s \in Steps |-> "none"]
  /\ exitCode' = -1
  /\ acts' = {}
  /\ svc' = NoSvc
  /\ models' = NoModels
  /\ tier' = ""
  /\ fs0' = fs
  /\ sent' = NoSmoke
  /\ asked' = {}
  /\ UNCHANGED <<checkOnly, envVars, tierVars, hwVars>>

Next ==
  \/ main_start
  \/ Step1
  \/ Step2
  \/ Step3
  \/ Step4
  \/ Step5
  \/ Step6
  \/ Step7
  \/ Step8
  \/ Rerun

Spec == Init /\ [][Next]_vars

\* ---------------------------------------------------------------------------
\* Properties of the tier resolution (checked under SpecTier)
\* ---------------------------------------------------------------------------

Resolved == tsel # NoTier

\* Some catalog entry has thresholds that the snapshot (tvram, tram) meets.
SomeEntryFits ==
  \E i \in 1..Len(MODEL_TIERS) :
    tvram >= MODEL_TIERS[i].min_vram /\ tram >= MODEL_TIERS[i].min_ram

\* The position of a tier in the catalog by its label; a tier that is no
\* catalog entry ranks after the last one.
Rank(t) ==
  IF \E i \in 1..Len(MODEL_TIERS) : MODEL_TIERS[i].label = t.label
  THEN CHOOSE i \in 1..Len(MODEL_TIERS) : MODEL_TIERS[i].label = t.label
  ELSE Len(MODEL_TIERS) + 1

\* C4 as stated: for every snapshot the returned tier, label and three models,
\* is an entry of the catalog.
C4_ReturnedTierIsCatalogEntry ==
  Resolved => \E i \in 1..Len(MODEL_TIERS) : tsel = TierOf(MODEL_TIERS[i])

\* C4 amended: for every snapshot the resolution returns a tier; it is a catalog
\* entry whose two thresholds the snapshot meets, or, when no entry's thresholds
\* are met, the built-in tier labelled "Minimum" whose three models are those of
\* the final catalog entry.
C4_ReturnedTierIsEntryOrDefault ==
  Resolved =>
    \/ \E i \in 1..Len(MODEL_TIERS) :
         /\ tsel = TierOf(MODEL_TIERS[i])
         /\ tvram >= MODEL_TIERS[i].min_vram
         /\ tram >= MODEL_TIERS[i].min_ram
    \/ /\ ~SomeEntryFits
       /\ tsel.label = "Minimum"
       /\ tsel.extract = MODEL_TIERS[Len(MODEL_TIERS)].extract
       /\ tsel.verify = MODEL_TIERS[Len(MODEL_TIERS)].verify
       /\ tsel.write = MODEL_TIERS[Len(MODEL_TIERS)].write

\* A snapshot below every entry's thresholds has been resolved to "Minimum".
C4_Witness == Resolved /\ ~SomeEntryFits /\ tsel.label = "Minimum"

\* C5: raising vram with ram fixed, or ram with vram fixed, never moves the
\* selection to a later position of the catalog; the no-match result ranks last.
C5_MoreHardwareNeverLowersTier ==
  (Resolved /\ tprev # NoTier) => Rank(tsel) <= Rank(tprev)

\* A raise that moved the selection strictly up, out of the no-match result.
C5_Witness ==
  /\ Resolved
  /\ tprev # NoTier
  /\ Rank(tprev) = Len(MODEL_TIERS) + 1
  /\ Rank(tsel) < Len(MODEL_TIERS)

\* C6 as stated: (24, 32) resolves to the first catalog entry and (0, 8) to the
\* final catalog entry.
C6_BoundarySnapshots ==
  Resolved =>
    /\ (tvram = 24 /\ tram = 32) => tsel = TierOf(MODEL_TIERS[1])
    /\ (tvram = 0 /\ tram = 8) => tsel = TierOf(MODEL_TIERS[Len(MODEL_TIERS)])

\* C6 amended: (24, 32) resolves to the first catalog entry; (0, 8) meets no
\* entry's thresholds and resolves to the built-in tier labelled "Minimum",
\* which has the final entry's three models but not its label.
C6_BoundarySnapshotsDefault ==
  Resolved =>
    /\ (tvram = 24 /\ tram = 32) => tsel = TierOf(MODEL_TIERS[1])
    /\ (tvram = 0 /\ tram = 8) =>
         /\ tsel.label = "Minimum"
         /\ tsel.label # MODEL_TIERS[Len(MODEL_TIERS)].label
         /\ tsel.extract = MODEL_TIERS[Len(MODEL_TIERS)].extract
         /\ tsel.verify = MODEL_TIERS[Len(MODEL_TIERS)].verify
         /\ tsel.write = MODEL_TIERS[Len(MODEL_TIERS)].write

\* The snapshot (0, 8) has been resolved, after (0, 8) was the starting point.
C6_Witness == Resolved /\ tvram = 0 /\ tram = 8 /\ tprev = NoTier

\* ---------------------------------------------------------------------------
\* Properties of a run of the wizard (checked under Spec)
\* ---------------------------------------------------------------------------
\* acts, svc and fs0 describe the step that has just returned, so a property of
\* "every step" is an invariant over them.

\* The acts of remediation the wizard can take: the pip install, the FFmpeg
\* installer, the launch of either service, a model pull.
Remediations ==
  {"pip_install", "ffmpeg_install", "ollama_serve", "compose_up", "model_pull"}

\* The step that has just returned, 0 before the first one.
LastStep == Len(started)

\* C1: in --check mode no step creates, overwrites or deletes a file or a
\* directory: what is on disk after a step is what the step found.
C1_CheckModeLeavesFilesAlone == checkOnly => fs = fs0

\* C2: in --check mode no step invokes the pip install, the FFmpeg installer, a
\* service launch or a model pull.
C2_CheckModeInvokesNoRemediation == checkOnly => acts \cap Remediations = {}

\* C3: the steps start in the order 1, 2, 3, ..., each at most once per run, and
\* a failure of step 1, 2 or 3 ends the run there with exit status 1.
C3_StepsInOrderFatalHalt ==
  /\ \A k \in 1..Len(started) : started[k] = k
  /\ \A s \in {1, 2, 3} :
       res[s] = "fail" => pc = "done" /\ exitCode = 1 /\ LastStep = s

\* Step 3 has failed after steps 1 and 2 passed, and the run has ended.
C3_Witness ==
  /\ res[1] = "ok" /\ res[2] = "ok" /\ res[3] = "fail"
  /\ started = <<1, 2, 3>>
  /\ pc = "done"
  /\ exitCode = 1

\* C7: in a run that follows a successful run, with nothing changed in between,
\* no step takes an act and no step changes a file or a directory.
C7_SecondRunDoesNothing == runNo >= 2 => acts = {} /\ fs = fs0

\* C8: when the initial probe of step 2 (Ollama) or of step 6 (SearXNG) is
\* answered, the step succeeds at once: no start command, no poll of the wait loop.
C8_ProbeAnsweredNoStart ==
  \A s \in {2, 6} :
    (LastStep = s /\ svc.probe = "up") =>
      /\ res[s] = "ok"
      /\ svc.starts = 0
      /\ svc.polls = 0
      /\ acts \cap {"ollama_serve", "compose_up"} = {}

\* Setup mode, step 6 has just returned and SearXNG answered the initial probe.
C8_Witness ==
  /\ ~checkOnly
  /\ LastStep = 6
  /\ svc.probe = "up"
  /\ res[6] = "ok"

\* The wait window of a step, in polls.
Window(s) == IF s = 2 THEN OLLAMA_POLLS ELSE SEARXNG_POLLS

\* C9: in setup mode, when the service is not up and no probe of the wait window
\* is answered, the step fails, and the start command was invoked exactly once;
\* no step invokes a start command more than once.
C9_WindowExhaustedFailsOneStart ==
  /\ svc.starts <= 1
  /\ \A s \in {2, 6} :
       (LastStep = s /\ svc.polls = Window(s) /\ ~svc.answered) =>
         /\ ~checkOnly
         /\ res[s] = "fail"
         /\ svc.starts = 1

\* Step 6 started SearXNG once, polled the whole window unanswered, and failed.
C9_Witness ==
  /\ ~checkOnly
  /\ LastStep = 6
  /\ svc.probe = "down"
  /\ svc.starts = 1
  /\ svc.polls = SEARXNG_POLLS
  /\ ~svc.answered
  /\ res[6] = "fail"

\* The conditions a --check run requires: interpreter and the ten packages, the
\* Ollama CLI and service, Docker, SearXNG, config.yaml on disk, the selected
\* models present, the five runtime directories when step 8 looks, and the
\* smoke test's LLM and search responses.
RequiredMet ==
  /\ env.py = "ok"
  /\ env.pkgs = "all"
  /\ env.cli = "found"
  /\ env.ollama = "up"
  /\ env.docker = "ok"
  /\ env.searx = "up"
  /\ fs.config \in {"valid", "invalid", "present"}
  /\ {models.extract, models.verify, models.write} \subseteq pulled
  /\ fs.dirs = RuntimeDirs
  /\ env.llm = "ok"
  /\ env.search = "ok"

\* The conditions a --check run looks at and only warns about.
AdvisoryMet ==
  /\ env.ffmpeg = "present"
  /\ fs.dotenv = "present"
  /\ fs.config = "valid"

\* C10 as stated: a --check run exits 0 exactly when every condition it checks
\* is met.
C10_ExitZeroIffEveryCondition ==
  (checkOnly /\ pc = "done") => (exitCode = 0 <=> (RequiredMet /\ AdvisoryMet))

\* C10 amended: a --check run exits 0 exactly when every required condition is
\* met; a missing FFmpeg, a missing .env and a config.yaml that fails validation
\* are reported and do not change the exit status.
C10_ExitZeroIffRequired ==
  (checkOnly /\ pc = "done") => (exitCode = 0 <=> RequiredMet)

\* A --check run has exited 0 on a machine without a .env file.
C10_Witness ==
  /\ checkOnly
  /\ pc = "done"
  /\ exitCode = 0
  /\ fs.dotenv = "absent"

\* C11: in --check mode nothing is ever asked on the terminal: no yes/no question,
\* no model-name input, and no prompt of a program the wizard launches, so the
\* run never waits for the operator.
C11_CheckModeAsksNothing == checkOnly => asked = {}

\* C15: the run is never in a state where it waits, without a timeout, on an
\* external command that does not exit.
C15_NoUnboundedWait == pc # "hung"

\* ---------------------------------------------------------------------------
\* Properties of the hardware detection (checked under SpecHw)
\* ---------------------------------------------------------------------------

\* step_hardware invoked the detector d.
Called(d) == \E k \in 1..Len(hout.r.calls) : hout.r.calls[k] = d

\* The table entries whose key occurs in the name.
KeyHits(name) ==
  {i \in 1..Len(AMD_VRAM_TABLE) : Contains(AMD_VRAM_TABLE[i].pattern, name)}

\* The GB value of the AdapterRAM lines of the WMI output: 1 for "1073741824", 0 for
\* a line that is empty, not a number or has no colon.
ReportedGB ==
  {IF hin.wmi.out[k].colon /\ hin.wmi.out[k].raw = "1073741824" THEN 1 ELSE 0
   : k \in {j \in 1..Len(hin.wmi.out) : hin.wmi.out[j].key = "AdapterRAM"}}

\* The AMD adapter was found by the WMI query.
FoundByWmi == hout.r.gpu_type = "amd" /\ Called("wmi") /\ ~Called("rocm-smi")

\* C12: when the name of the detected AMD adapter contains a key of
\* AMD_VRAM_TABLE, its VRAM is the value of the first such key in table order,
\* whatever the AdapterRAM line says; when it contains none, the VRAM is the
\* value the AdapterRAM line reports (0 when that is not a number).
C12_TableValueWinsOverReported ==
  (hout.done /\ FoundByWmi) =>
    LET hits == KeyHits(hout.r.gpu_name)
    IN /\ hits # {} =>
            \E i \in hits : /\ \A j \in hits : i <= j
                            /\ hout.r.vram = AMD_VRAM_TABLE[i].vram
       /\ hits = {} => hout.r.vram \in ReportedGB

\* The WMI query reported the 7900 XTX with 1 GB of AdapterRAM and the detected
\* VRAM is the 24 GB of the table.
C12_Witness ==
  /\ hout.done
  /\ FoundByWmi
  /\ hout.r.gpu_name = N7900XTX
  /\ hin.wmi = Printed(<<NameLine(N7900XTX), RamLine("1073741824")>>)
  /\ hout.r.vram = 24

\* The outputs from which a detector can take a GPU.
NvUsable == {Printed(<<NRtx, "24576">>), Printed(<<NRtx, "8192">>)}
WmiUsable ==
  {Printed(<<NameLine(n), RamLine(raw)>>) : n \in AmdNames, raw \in RawValues}
  \cup {c \in WmiResults :
          c.kind = "out" /\ Len(c.out) >= 2 /\ c.out[Len(c.out)].key = "AdapterRAM"
          /\ \E k \in 1..Len(c.out) : c.out[k].key = "Name" /\ c.out[k].val \in AmdNames}
RocmUsable ==
  {c \in RocmResults :
     c.kind = "out" /\ c.out.gpu /\ Len(c.out.lines) > 0
     /\ c.out.lines[1].val \in AmdNames}

\* C13: whatever the four probes do (command missing, timed out, not executable,
\* empty output, output without the expected fields), step_hardware returns a hw
\* dict and no exception leaves it, and a detector whose probe gave nothing usable
\* reports no GPU: the chain goes on to the next detector.
C13_DetectionNeverRaises ==
  hout.done =>
    /\ ~hout.r.raised
    /\ hout.r.ram = hin.ram
    /\ hout.r.has_gpu = (hout.r.gpu_type # "none")
    /\ hin.nv \notin NvUsable => hout.r.gpu_type # "nvidia"
    /\ (Called("wmi") /\ hin.wmi \notin WmiUsable) => Called("rocm-smi")
    /\ (Called("rocm-smi") /\ hin.rocm \notin RocmUsable) => hout.r.gpu_type = "none"
    /\ (Called("ollama ps") /\ hin.ps.kind # "out") => hout.r.warned

\* A Windows machine where nvidia-smi prints a card with "[N/A]" memory, the WMI
\* query may not be executed and rocm-smi times out: the dict says no GPU.
C13_Witness ==
  /\ hout.done
  /\ hin.sys = "Windows"
  /\ hin.nv = Printed(<<NRtx, "[N/A]">>)
  /\ hin.wmi.kind = "denied"
  /\ hin.rocm.kind = "timeout"
  /\ hout.r.calls = <<"nvidia-smi", "wmi", "rocm-smi">>
  /\ hout.r.gpu_type = "none"
  /\ ~hout.r.raised

\* ---------------------------------------------------------------------------
\* Further properties of the tier resolution (checked under SpecTier)
\* ---------------------------------------------------------------------------

\* Entry i of the catalog has both thresholds met by the snapshot (tvram, tram).
Fits(i) == tvram >= MODEL_TIERS[i].min_vram /\ tram >= MODEL_TIERS[i].min_ram

\* The result is entry i and no earlier entry fits.
IsFirstFit(i) ==
  /\ Fits(i)
  /\ \A j \in 1..(i - 1) : ~Fits(j)
  /\ tsel = TierOf(MODEL_TIERS[i])

\* C18 as stated: for every snapshot the result is the first catalog entry, in
\* declared order, whose two thresholds the snapshot meets.
C18_FirstFitForEverySnapshot ==
  Resolved => \E i \in 1..Len(MODEL_TIERS) : IsFirstFit(i)

\* C18 amended: when some entry fits, the result is the first fitting entry in
\* declared order; when none fits, it is the built-in "Minimum" tier with
\* phi3:mini for the three roles; and resolving the same snapshot again gives the
\* same result.
C18_FirstFitOrBuiltIn ==
  Resolved =>
    /\ SomeEntryFits => \E i \in 1..Len(MODEL_TIERS) : IsFirstFit(i)
    /\ ~SomeEntryFits =>
         tsel = [label |-> "Minimum", extract |-> "phi3:mini",
                 verify |-> "phi3:mini", write |-> "phi3:mini"]
    /\ tsel = ResolveTier(tvram, tram)

\* After a raise the snapshot is (16, 64): entries 2 to 6 fit and entry 2 is the
\* result.
C18_Witness ==
  /\ Resolved
  /\ tprev # NoTier
  /\ tvram = 16 /\ tram = 64
  /\ Fits(2) /\ Fits(6) /\ ~Fits(1)
  /\ tsel = TierOf(MODEL_TIERS[2])

\* The result is one of the catalog's entries.
FromCatalog == \E i \in 1..Len(MODEL_TIERS) : tsel = TierOf(MODEL_TIERS[i])

\* C19 as stated: the final catalog entry has min_vram = 0 and min_ram = 0, and the
\* scan matches an entry for every snapshot.
C19_FinalEntryIsZeroFloor ==
  Resolved =>
    /\ MODEL_TIERS[Len(MODEL_TIERS)].min_vram = 0
    /\ MODEL_TIERS[Len(MODEL_TIERS)].min_ram = 0
    /\ FromCatalog

\* C19 amended: the final catalog entry has min_vram = 0 and min_ram = 16, so the
\* scan matches an entry exactly for the snapshots with ram >= 16; below that no
\* entry matches.
C19_FinalEntryNeedsRam16 ==
  Resolved =>
    /\ MODEL_TIERS[Len(MODEL_TIERS)].min_vram = 0
    /\ MODEL_TIERS[Len(MODEL_TIERS)].min_ram = 16
    /\ FromCatalog <=> tram >= 16
    /\ SomeEntryFits <=> tram >= 16

\* The largest modelled vram with 15 GB of RAM: still no entry matches.
C19_Witness ==
  /\ Resolved
  /\ tvram = MaxVram
  /\ tram = 15
  /\ ~FromCatalog

\* ---------------------------------------------------------------------------
\* Further properties of a run of the wizard (checked under Spec)
\* ---------------------------------------------------------------------------

\* The smoke test of step 8 has run.
SmokeRan == LastStep = 8 /\ sent # NoSmoke

\* C14: once the smoke test runs, all three requests are sent, and step 8 fails
\* exactly when the LLM request or the search query got no response; what the
\* HTTP fetch test got does not matter.
C14_SmokeVerdict ==
  SmokeRan =>
    /\ sent.generate # "unsent" /\ sent.search # "unsent" /\ sent.fetch # "unsent"
    /\ res[8] = "fail" <=> (sent.generate = "none" \/ sent.search = "none")
    /\ res[8] = "ok" <=> (sent.generate = "ok" /\ sent.search = "ok")

\* The smoke test passed although neither fetch URL answered.
C14_Witness ==
  /\ SmokeRan
  /\ sent.fetch = "down"
  /\ res[8] = "ok"
  /\ exitCode = 0

\* C16: when step 7 finds config.yaml on disk, it leaves the file as it is, also
\* when the file fails validation, and whenever the step returns it returns
\* success. (A step 7 that ends in an exception of a later write returns nothing:
\* that is the subject of C21.)
C16_ExistingConfigKept ==
  (LastStep = 7 /\ fs0.config \in {"valid", "invalid"}) =>
    /\ fs.config = fs0.config
    /\ fs.config_models = fs0.config_models
    /\ "write_config" \notin acts
    /\ res[7] # "raise" => res[7] = "ok"

\* Setup mode: step 7 found a config.yaml that fails validation, kept it, and
\* returned success.
C16_Witness ==
  /\ ~checkOnly
  /\ LastStep = 7
  /\ fs0.config = "invalid"
  /\ fs.config = "invalid"
  /\ res[7] = "ok"

\* Step s has failed: it returned False, or it ended in an exception.
StepFailed(s) == res[s] \in {"fail", "raise"}

\* C17: in setup mode a failure of step 6 or of step 7 does not end the run: the
\* next step is started, and the run ends only after step 8 has been started.
C17_NonFatalStepsGoOn ==
  \A s \in {6, 7} :
    (~checkOnly /\ StepFailed(s)) =>
      /\ pc \in {StepPc[s + 1], "s8", "done"}
      /\ pc = "done" => LastStep = 8

\* C20: a step that has acted reports success only when the condition that its
\* check tested holds afterwards: all ten packages import after a pip install,
\* ffmpeg is there after its installer ran, the service answers after its start.
C20_SuccessAfterActMeansVerified ==
  /\ (LastStep = 1 /\ "pip_install" \in acts /\ res[1] = "ok") => env.pkgs = "all"
  /\ (LastStep = 2 /\ "ollama_serve" \in acts /\ res[2] = "ok") => env.ollama = "up"
  /\ (LastStep = 3 /\ "ffmpeg_install" \in acts /\ res[3] = "ok") =>
       env.ffmpeg = "present"
  /\ (LastStep = 6 /\ "compose_up" \in acts /\ res[6] = "ok") => env.searx = "up"

\* An exception has left step s and reached the handler around main().
StepRaised(s) == res[s] = "raise"

\* C21: no step ends by an exception that reaches the runner: every failure of an
\* operation inside a step, a file write error included, comes back as the step's
\* returned outcome.
C21_NoStepRaises == \A s \in Steps : ~StepRaised(s)

\* The smoke test's LLM request or search query has been issued in this run.
SmokeIssued == sent.generate # "unsent" \/ sent.search # "unsent"

\* C22 as stated: the smoke test's LLM request and search query are issued only in
\* runs where each of the steps 1 to 7 passed.
C22_SmokeOnlyAfterAllPassed ==
  SmokeIssued => \A s \in 1..7 : res[s] = "ok"

\* C22 amended: the two requests are issued only after step 8's own checks have
\* all passed (Ollama answers, the three selected models are listed, SearXNG
\* answers, config.yaml and the five directories exist), and only in runs where
\* each of the steps 1 to 5 and 7 passed; in --check mode step 6 passed as well,
\* while in setup mode step 6 may have failed, SearXNG having come up after its
\* wait window.
C22_SmokeOnlyAfterOwnChecks ==
  SmokeIssued =>
    /\ LastStep = 8
    /\ AllOk(models, env.ollama, env.searx, fs, pulled)
    /\ \A s \in (1..5) \cup {7} : res[s] = "ok"
    /\ res[6] \in {"ok", "fail"}
    /\ checkOnly => res[6] = "ok"

\* Setup mode: step 6 gave up on SearXNG, step 8 found it answering and issued
\* both requests.
C22_Witness ==
  /\ ~checkOnly
  /\ res[6] = "fail"
  /\ sent.generate # "unsent"
  /\ sent.search # "unsent"
  /\ LastStep = 8

\* C23: after its start command a step polls at most its window of rounds (12 for
\* Ollama, 18 for SearXNG), five seconds apart; every round that got no response
\* printed exactly one "Waiting..." message naming the seconds waited so far, and
\* the round that got a response is the last one: the step returns success there
\* and polls no further. Without a start command there is no poll.
C23_PollsAndProgressNotes ==
  \A s \in {2, 6} :
    LastStep = s =>
      /\ svc.polls <= Window(s)
      /\ svc.polls > 0 => svc.starts = 1
      /\ Len(svc.notes) = (IF svc.answered THEN svc.polls - 1 ELSE svc.polls)
      /\ \A k \in 1..Len(svc.notes) : svc.notes[k] = k * POLL_INTERVAL
      /\ svc.answered => res[s] = "ok"
      /\ (svc.polls > 0 /\ ~svc.answered) => (svc.polls = Window(s) /\ res[s] = "fail")

\* Step 6 started SearXNG, the first round printed "Waiting... (5s)", the second
\* round got a response and the step returned success.
C23_Witness ==
  /\ LastStep = 6
  /\ svc.starts = 1
  /\ svc.polls = 2
  /\ svc.answered
  /\ svc.notes = <<5>>
  /\ res[6] = "ok"

\* ---------------------------------------------------------------------------
\* Further properties of the hardware detection (checked under SpecHw)
\* ---------------------------------------------------------------------------

\* "ollama ps" ran and its output does not have "GPU" in it: the runtime reports
\* CPU-only execution.
RuntimeCpuOnly == hin.ps = Printed([gpu |-> FALSE])

\* The hw dict is the same whatever "ollama ps" does on this machine.
SnapshotIgnoresRuntime ==
  \A p \in PsResults :
    LET d == DetectHardware([hin EXCEPT !.ps = p])
    IN /\ d.has_gpu = hout.r.has_gpu
       /\ d.gpu_type = hout.r.gpu_type
       /\ d.gpu_name = hout.r.gpu_name
       /\ d.vram = hout.r.vram
       /\ d.ram = hout.r.ram

\* C24: whenever a GPU was found, NVIDIA or AMD, and the runtime reports
\* CPU-only execution, the warning is printed; the runtime's report never changes
\* the hw dict.
C24_AnyGpuCpuOnlyWarns ==
  hout.done =>
    /\ (hout.r.has_gpu /\ RuntimeCpuOnly) => hout.r.warned
    /\ SnapshotIgnoresRuntime

\* What each detector reports on this machine when it is run.
NvReport == detect_nvidia(hin.nv)
WmiReport == detect_amd_windows(hin.sys, hin.wmi)
RocmReport == detect_amd_rocm(hin.rocm)

\* The place of a detector in the declared order; "ollama ps" is no detector.
DetectorRank(d) ==
  CASE d = "nvidia-smi" -> 1 [] d = "wmi" -> 2 [] d = "rocm-smi" -> 3 [] OTHER -> 4

\* The vendor, name and VRAM of the hw dict are those of the report r.
TakenFrom(r, vendor) ==
  /\ hout.r.has_gpu
  /\ hout.r.gpu_type = vendor
  /\ hout.r.gpu_name = r.name
  /\ hout.r.vram = r.vram

\* C25: the detectors run in the order NVIDIA CLI, WMI query (on Windows only),
\* ROCm tool; one is run only when every earlier one reported no GPU; and the hw
\* dict has the vendor, name and VRAM of the first detector that found a GPU, or
\* says "none" when none did.
C25_FirstSuccessChain ==
  hout.done =>
    /\ hout.r.calls[1] = "nvidia-smi"
    /\ \A i, j \in 1..Len(hout.r.calls) :
         i < j => DetectorRank(hout.r.calls[i]) < DetectorRank(hout.r.calls[j])
    /\ Called("wmi") <=> (~NvReport.found /\ hin.sys = "Windows")
    /\ Called("rocm-smi") <=> (~NvReport.found /\ ~(Called("wmi") /\ WmiReport.found))
    /\ NvReport.found => TakenFrom(NvReport, "nvidia")
    /\ (Called("wmi") /\ WmiReport.found) => TakenFrom(WmiReport, "amd")
    /\ (Called("rocm-smi") /\ RocmReport.found) => TakenFrom(RocmReport, "amd")
    /\ (~NvReport.found /\ ~(Called("wmi") /\ WmiReport.found) /\ ~RocmReport.found) =>
         (~hout.r.has_gpu /\ hout.r.gpu_type = "none" /\ hout.r.vram = 0)

\* A Windows machine without nvidia-smi where both the WMI query and rocm-smi
\* would report an AMD card: the WMI query found the 7900 XTX, rocm-smi was not
\* run, and the hw dict has the WMI result.
C25_Witness ==
  /\ hout.done
  /\ hin.sys = "Windows"
  /\ hin.nv.kind = "absent"
  /\ hin.wmi = Printed(<<NameLine(N7900XTX), RamLine("")>>)
  /\ RocmReport.found
  /\ RocmReport.name = N6800XT
  /\ ~Called("rocm-smi")
  /\ hout.r.gpu_name = N7900XTX
  /\ hout.r.vram = 24

\* ---------------------------------------------------------------------------
\* Further properties of a run of the wizard (checked under Spec)
\* ---------------------------------------------------------------------------

\* A setup-mode run has ended with SETUP COMPLETE.
SetupSucceeded == ~checkOnly /\ pc = "done" /\ res[8] = "ok" /\ exitCode = 0

\* The selection step 5 confirms on this machine with this operator: the models
\* of the tier resolved for the snapshot, each replaced by what the operator
\* typed for it after declining the recommendation.
ConfirmedSelection ==
  LET t == ResolveTier(hw.vram, hw.ram)
      declined == ~checkOnly /\ user.accept = "no"
      pick(typed, rec) == IF declined /\ typed # "" THEN typed ELSE rec
  IN [extract |-> pick(UserTyped.extract, t.extract),
      verify |-> pick(UserTyped.verify, t.verify),
      write |-> pick(UserTyped.write, t.write)]

\* C26 as stated: after a setup-mode run that ended in success, config.yaml names
\* as extract, verify and write models the selection confirmed in step 5, and
\* that selection is the same after every later step.
C26_ConfigHoldsSelection ==
  /\ (SetupSucceeded /\ fs.config = "valid") => fs.config_models = models
  /\ (LastStep >= 5 /\ pc # "hung") => models = ConfirmedSelection

\* C26 amended: a config.yaml that step 7 creates names the selection confirmed in
\* step 5; a config.yaml that step 7 found on disk keeps the models it named,
\* whatever was selected; step 8 changes no file; and the selection is the same
\* after every later step.
C26_CreatedConfigHoldsSelection ==
  /\ (~checkOnly /\ LastStep = 7 /\ res[7] = "ok") =>
       IF fs0.config = "absent"
         THEN fs.config = "valid" /\ fs.config_models = models
         ELSE fs.config = fs0.config /\ fs.config_models = fs0.config_models
  /\ LastStep = 8 => fs = fs0
  /\ (LastStep >= 5 /\ pc # "hung") => models = ConfirmedSelection

\* A setup-mode run has ended in success with the operator's override of the
\* extract model in the config.yaml it created.
C26_Witness ==
  /\ SetupSucceeded
  /\ user.accept = "no"
  /\ models.extract = "mistral:7b"
  /\ fs.config = "valid"
  /\ fs.config_models = models

\* What step 8 has found in this run: the Ollama API answered, the three selected
\* models were listed, SearXNG answered, config.yaml and the five runtime
\* directories existed, and the LLM request and the search query got a response.
Step8AllMet ==
  /\ LastStep = 8
  /\ env.ollama = "up"
  /\ {models.extract, models.verify, models.write} \subseteq pulled
  /\ env.searx = "up"
  /\ fs.config \in {"valid", "invalid", "present"}
  /\ fs.dirs = RuntimeDirs
  /\ sent.generate = "ok"
  /\ sent.search = "ok"

\* The operator answered no to "Continue?": main printed "Setup cancelled." and
\* called sys.exit(0) before step 1.
Cancelled == ~checkOnly /\ user.continue = "no" /\ started = << >> /\ pc = "done"

\* C27 as stated: in either mode the process exits with code 0 only if step 8
\* found all of its conditions met.
C27_ExitZeroOnlyAfterStep8 == exitCode = 0 => Step8AllMet

\* C27 amended: the process exits with code 0 only if step 8 found all of its
\* conditions met, or if, in setup mode, the operator declined the "Continue?"
\* prompt, in which case no step was started.
C27_ExitZeroStep8OrCancelled == exitCode = 0 => (Step8AllMet \/ Cancelled)

\* A setup-mode run has exited with code 0 after step 8 found everything met,
\* although step 6 had returned failure.
C27_Witness ==
  /\ ~checkOnly
  /\ pc = "done"
  /\ exitCode = 0
  /\ Step8AllMet
  /\ res[6] = "fail"

\* The run has ended with exit code 1 and step s was the last step started.
HaltedAt(s) == pc = "done" /\ exitCode = 1 /\ LastStep = s

\* C28: in --check mode a step 6 that finds SearXNG not responding and a step 7
\* that finds no config.yaml return failure, and the process exits with code 1
\* before step 8 is started; models that are missing after step 5 never end the
\* run there, in either mode, and when the run reaches step 8 it is step 8 that
\* fails on them, before any smoke request.
C28_CheckModeHaltsAtSixAndSeven ==
  /\ (checkOnly /\ LastStep = 6 /\ svc.probe = "down") => res[6] = "fail"
  /\ (checkOnly /\ LastStep = 7 /\ fs0.config = "absent") => res[7] = "fail"
  /\ \A s \in {6, 7} : (checkOnly /\ res[s] = "fail") => HaltedAt(s)
  /\ res[5] \in {"none", "ok", "warn"}
  /\ (LastStep = 5 /\ pc # "hung") => (pc = "s6" /\ exitCode = -1)
  /\ (res[5] = "warn" /\ LastStep = 8) =>
       (res[8] = "fail" /\ sent = NoSmoke /\ exitCode = 1)

\* A --check run with a model missing: step 5 let the run go on, step 6 passed,
\* step 7 found no config.yaml and the process exited with code 1 without
\* starting step 8.
C28_Witness ==
  /\ checkOnly
  /\ res[5] = "warn"
  /\ res[6] = "ok"
  /\ res[7] = "fail"
  /\ fs.config = "absent"
  /\ started = <<1, 2, 3, 4, 5, 6, 7>>
  /\ HaltedAt(7)

====
